---------------------------- MODULE Spec2Model ----------------------------
(***************************************************************************)
(* A model of the PDF-to-JSON converter: backend/pdf_converter.py (the     *)
(* classifier, the three source adapters, the aggregator and the           *)
(* orchestrator convert_to_json) and backend/main.py (the convert-pdf      *)
(* endpoint).                                                              *)
(*                                                                         *)
(* A text is a sequence of characters, each a string.  A real number is a  *)
(* record [num, den] with den > 0.                                         *)
(***************************************************************************)
EXTENDS Integers, Sequences, FiniteSets, TLC

VARIABLES
    \* one word token going through lines 64-69 of extract_text_with_formatting
    raw, text, elem_type, cpc,
    \* one page's images going through lines 85-88
    page_images, ocr_out, opc,
    \* one call of _group_elements: self.ocr_enabled and the elements, what
    \* the call gives
    group_in, group_out, gpc,
    \* a call of convert_to_json: who calls, the PDF at pdf_path, the
    \* converter's flag, whether an output_path is given
    caller, document, ocr_enabled, output_path,
    \* the request of convert_pdf: its content type and size in bytes, the
    \* bytes counted and written so far, the position, what leaves the try
    \* block (the exception raised or the value returned), the response
    content_type, upload, file_size, written, epc, pending, response,
    \* the converter: position, page, elements, the exception raised, the
    \* calls of _group_elements and the last call's argument, the dict
    \* returned, the dict written to output_path
    pc, page_num, elements, error, agg_calls, agg_input, result, saved

cvars == <<raw, text, elem_type, cpc>>
ovars == <<page_images, ocr_out, opc>>
gvars == <<group_in, group_out, gpc>>
cfg == <<caller, document, ocr_enabled, output_path, content_type, upload>>
evars == <<file_size, written, epc, pending, response>>
pvars == <<pc, page_num, elements, error, agg_calls, agg_input, result, saved>>
vars == <<cvars, ovars, gvars, cfg, evars, pvars>>

(***************************************************************************)
(* Bounds of the model.                                                    *)
(***************************************************************************)
MaxTextLen == 4
MaxSpans == 2
MaxPages == 2
MaxElements == 4

Range(s) == {s[i] : i \in 1..Len(s)}

(***************************************************************************)
(* Characters and the classes Python's re gives them in a str pattern      *)
(* (Unicode matching).  An ASCII character is written as itself; any       *)
(* other, and an ASCII control character without a TLA+ escape, by its     *)
(* code point, "u" and four or more hexadecimal digits: "u2022" is the     *)
(* bullet, "u000b" the vertical tab.  Whitespace and Digit are complete    *)
(* (str.isspace and \s agree; \d is the category Nd); \w matches every     *)
(* alphanumeric of every script, and WordChar decides it from the code     *)
(* point.                                                                  *)
(***************************************************************************)
Bullet == "u2022"
Upper == {"A", "B", "C", "D", "E", "F", "G", "H", "I", "J", "K", "L", "M",
          "N", "O", "P", "Q", "R", "S", "T", "U", "V", "W", "X", "Y", "Z"}
Lower == {"a", "b", "c", "d", "e", "f", "g", "h", "i", "j", "k", "l", "m",
          "n", "o", "p", "q", "r", "s", "t", "u", "v", "w", "x", "y", "z"}
AsciiDigit == {"0", "1", "2", "3", "4", "5", "6", "7", "8", "9"}
OtherDigit ==
    {"u0660", "u0661", "u0662", "u0663", "u0664", "u0665", "u0666", "u0667",
     "u0668", "u0669", "u06f0", "u06f1", "u06f2", "u06f3", "u06f4", "u06f5",
     "u06f6", "u06f7", "u06f8", "u06f9", "u07c0", "u07c1", "u07c2", "u07c3",
     "u07c4", "u07c5", "u07c6", "u07c7", "u07c8", "u07c9", "u0966", "u0967",
     "u0968", "u0969", "u096a", "u096b", "u096c", "u096d", "u096e", "u096f",
     "u09e6", "u09e7", "u09e8", "u09e9", "u09ea", "u09eb", "u09ec", "u09ed",
     "u09ee", "u09ef", "u0a66", "u0a67", "u0a68", "u0a69", "u0a6a", "u0a6b",
     "u0a6c", "u0a6d", "u0a6e", "u0a6f", "u0ae6", "u0ae7", "u0ae8", "u0ae9",
     "u0aea", "u0aeb", "u0aec", "u0aed", "u0aee", "u0aef", "u0b66", "u0b67",
     "u0b68", "u0b69", "u0b6a", "u0b6b", "u0b6c", "u0b6d", "u0b6e", "u0b6f",
     "u0be6", "u0be7", "u0be8", "u0be9", "u0bea", "u0beb", "u0bec", "u0bed",
     "u0bee", "u0bef", "u0c66", "u0c67", "u0c68", "u0c69", "u0c6a", "u0c6b",
     "u0c6c", "u0c6d", "u0c6e", "u0c6f", "u0ce6", "u0ce7", "u0ce8", "u0ce9",
     "u0cea", "u0ceb", "u0cec", "u0ced", "u0cee", "u0cef", "u0d66", "u0d67",
     "u0d68", "u0d69", "u0d6a", "u0d6b", "u0d6c", "u0d6d", "u0d6e", "u0d6f",
     "u0de6", "u0de7", "u0de8", "u0de9", "u0dea", "u0deb", "u0dec", "u0ded",
     "u0dee", "u0def", "u0e50", "u0e51", "u0e52", "u0e53", "u0e54", "u0e55",
     "u0e56", "u0e57", "u0e58", "u0e59", "u0ed0", "u0ed1", "u0ed2", "u0ed3",
     "u0ed4", "u0ed5", "u0ed6", "u0ed7", "u0ed8", "u0ed9", "u0f20", "u0f21",
     "u0f22", "u0f23", "u0f24", "u0f25", "u0f26", "u0f27", "u0f28", "u0f29",
     "u1040", "u1041", "u1042", "u1043", "u1044", "u1045", "u1046", "u1047",
     "u1048", "u1049", "u1090", "u1091", "u1092", "u1093", "u1094", "u1095",
     "u1096", "u1097", "u1098", "u1099", "u17e0", "u17e1", "u17e2", "u17e3",
     "u17e4", "u17e5", "u17e6", "u17e7", "u17e8", "u17e9", "u1810", "u1811",
     "u1812", "u1813", "u1814", "u1815", "u1816", "u1817", "u1818", "u1819",
     "u1946", "u1947", "u1948", "u1949", "u194a", "u194b", "u194c", "u194d",
     "u194e", "u194f", "u19d0", "u19d1", "u19d2", "u19d3", "u19d4", "u19d5",
     "u19d6", "u19d7", "u19d8", "u19d9", "u1a80", "u1a81", "u1a82", "u1a83",
     "u1a84", "u1a85", "u1a86", "u1a87", "u1a88", "u1a89", "u1a90", "u1a91",
     "u1a92", "u1a93", "u1a94", "u1a95", "u1a96", "u1a97", "u1a98", "u1a99",
     "u1b50", "u1b51", "u1b52", "u1b53", "u1b54", "u1b55", "u1b56", "u1b57",
     "u1b58", "u1b59", "u1bb0", "u1bb1", "u1bb2", "u1bb3", "u1bb4", "u1bb5",
     "u1bb6", "u1bb7", "u1bb8", "u1bb9", "u1c40", "u1c41", "u1c42", "u1c43",
     "u1c44", "u1c45", "u1c46", "u1c47", "u1c48", "u1c49", "u1c50", "u1c51",
     "u1c52", "u1c53", "u1c54", "u1c55", "u1c56", "u1c57", "u1c58", "u1c59",
     "ua620", "ua621", "ua622", "ua623", "ua624", "ua625", "ua626", "ua627",
     "ua628", "ua629", "ua8d0", "ua8d1", "ua8d2", "ua8d3", "ua8d4", "ua8d5",
     "ua8d6", "ua8d7", "ua8d8", "ua8d9", "ua900", "ua901", "ua902", "ua903",
     "ua904", "ua905", "ua906", "ua907", "ua908", "ua909", "ua9d0", "ua9d1",
     "ua9d2", "ua9d3", "ua9d4", "ua9d5", "ua9d6", "ua9d7", "ua9d8", "ua9d9",
     "ua9f0", "ua9f1", "ua9f2", "ua9f3", "ua9f4", "ua9f5", "ua9f6", "ua9f7",
     "ua9f8", "ua9f9", "uaa50", "uaa51", "uaa52", "uaa53", "uaa54", "uaa55",
     "uaa56", "uaa57", "uaa58", "uaa59", "uabf0", "uabf1", "uabf2", "uabf3",
     "uabf4", "uabf5", "uabf6", "uabf7", "uabf8", "uabf9", "uff10", "uff11",
     "uff12", "uff13", "uff14", "uff15", "uff16", "uff17", "uff18", "uff19",
     "u104a0", "u104a1", "u104a2", "u104a3", "u104a4", "u104a5", "u104a6",
     "u104a7", "u104a8", "u104a9", "u10d30", "u10d31", "u10d32", "u10d33",
     "u10d34", "u10d35", "u10d36", "u10d37", "u10d38", "u10d39", "u11066",
     "u11067", "u11068", "u11069", "u1106a", "u1106b", "u1106c", "u1106d",
     "u1106e", "u1106f", "u110f0", "u110f1", "u110f2", "u110f3", "u110f4",
     "u110f5", "u110f6", "u110f7", "u110f8", "u110f9", "u11136", "u11137",
     "u11138", "u11139", "u1113a", "u1113b", "u1113c", "u1113d", "u1113e",
     "u1113f", "u111d0", "u111d1", "u111d2", "u111d3", "u111d4", "u111d5",
     "u111d6", "u111d7", "u111d8", "u111d9", "u112f0", "u112f1", "u112f2",
     "u112f3", "u112f4", "u112f5", "u112f6", "u112f7", "u112f8", "u112f9",
     "u11450", "u11451", "u11452", "u11453", "u11454", "u11455", "u11456",
     "u11457", "u11458", "u11459", "u114d0", "u114d1", "u114d2", "u114d3",
     "u114d4", "u114d5", "u114d6", "u114d7", "u114d8", "u114d9", "u11650",
     "u11651", "u11652", "u11653", "u11654", "u11655", "u11656", "u11657",
     "u11658", "u11659", "u116c0", "u116c1", "u116c2", "u116c3", "u116c4",
     "u116c5", "u116c6", "u116c7", "u116c8", "u116c9", "u11730", "u11731",
     "u11732", "u11733", "u11734", "u11735", "u11736", "u11737", "u11738",
     "u11739", "u118e0", "u118e1", "u118e2", "u118e3", "u118e4", "u118e5",
     "u118e6", "u118e7", "u118e8", "u118e9", "u11950", "u11951", "u11952",
     "u11953", "u11954", "u11955", "u11956", "u11957", "u11958", "u11959",
     "u11c50", "u11c51", "u11c52", "u11c53", "u11c54", "u11c55", "u11c56",
     "u11c57", "u11c58", "u11c59", "u11d50", "u11d51", "u11d52", "u11d53",
     "u11d54", "u11d55", "u11d56", "u11d57", "u11d58", "u11d59", "u11da0",
     "u11da1", "u11da2", "u11da3", "u11da4", "u11da5", "u11da6", "u11da7",
     "u11da8", "u11da9", "u16a60", "u16a61", "u16a62", "u16a63", "u16a64",
     "u16a65", "u16a66", "u16a67", "u16a68", "u16a69", "u16ac0", "u16ac1",
     "u16ac2", "u16ac3", "u16ac4", "u16ac5", "u16ac6", "u16ac7", "u16ac8",
     "u16ac9", "u16b50", "u16b51", "u16b52", "u16b53", "u16b54", "u16b55",
     "u16b56", "u16b57", "u16b58", "u16b59", "u1d7ce", "u1d7cf", "u1d7d0",
     "u1d7d1", "u1d7d2", "u1d7d3", "u1d7d4", "u1d7d5", "u1d7d6", "u1d7d7",
     "u1d7d8", "u1d7d9", "u1d7da", "u1d7db", "u1d7dc", "u1d7dd", "u1d7de",
     "u1d7df", "u1d7e0", "u1d7e1", "u1d7e2", "u1d7e3", "u1d7e4", "u1d7e5",
     "u1d7e6", "u1d7e7", "u1d7e8", "u1d7e9", "u1d7ea", "u1d7eb", "u1d7ec",
     "u1d7ed", "u1d7ee", "u1d7ef", "u1d7f0", "u1d7f1", "u1d7f2", "u1d7f3",
     "u1d7f4", "u1d7f5", "u1d7f6", "u1d7f7", "u1d7f8", "u1d7f9", "u1d7fa",
     "u1d7fb", "u1d7fc", "u1d7fd", "u1d7fe", "u1d7ff", "u1e140", "u1e141",
     "u1e142", "u1e143", "u1e144", "u1e145", "u1e146", "u1e147", "u1e148",
     "u1e149", "u1e2f0", "u1e2f1", "u1e2f2", "u1e2f3", "u1e2f4", "u1e2f5",
     "u1e2f6", "u1e2f7", "u1e2f8", "u1e2f9", "u1e950", "u1e951", "u1e952",
     "u1e953", "u1e954", "u1e955", "u1e956", "u1e957", "u1e958", "u1e959",
     "u1fbf0", "u1fbf1", "u1fbf2", "u1fbf3", "u1fbf4", "u1fbf5", "u1fbf6",
     "u1fbf7", "u1fbf8", "u1fbf9"}
Digit == AsciiDigit \cup OtherDigit
OtherWhitespace ==
    {"u000b", "u001c", "u001d", "u001e", "u001f", "u0085", "u00a0", "u1680",
     "u2000", "u2001", "u2002", "u2003", "u2004", "u2005", "u2006", "u2007",
     "u2008", "u2009", "u200a", "u2028", "u2029", "u202f", "u205f", "u3000"}
Whitespace == {" ", "\t", "\n", "\r", "\f"} \cup OtherWhitespace
\* the code point a character's name stands for: CodePoint("u044f") = 1103
HexDigits == <<"0", "1", "2", "3", "4", "5", "6", "7", "8", "9",
               "a", "b", "c", "d", "e", "f">>

HexVal(d) == (CHOOSE k \in 1..16 : HexDigits[k] = d) - 1

\* the number written by the characters 2..n of the name
RECURSIVE HexNum(_, _)
HexNum(c, n) ==
    IF n <= 1 THEN 0 ELSE 16 * HexNum(c, n - 1) + HexVal(SubSeq(c, n, n))

CodePoint(c) == HexNum(c, Len(c))

InRanges(n, ranges) ==
    \E k \in 1..Len(ranges) : ranges[k][1] <= n /\ n <= ranges[k][2]

\* the code points from U+0080 on that \w matches, as ranges <<first, last>>
WordRanges ==
    << <<170, 170>>, <<178, 179>>, <<181, 181>>, <<185, 186>>, <<188, 190>>,
       <<192, 214>>, <<216, 246>>, <<248, 705>>, <<710, 721>>, <<736, 740>>,
       <<748, 748>>, <<750, 750>>, <<880, 884>>, <<886, 887>>, <<890, 893>>,
       <<895, 895>>, <<902, 902>>, <<904, 906>>, <<908, 908>>, <<910, 929>>,
       <<931, 1013>>, <<1015, 1153>>, <<1162, 1327>>, <<1329, 1366>>,
       <<1369, 1369>>, <<1376, 1416>>, <<1488, 1514>>, <<1519, 1522>>,
       <<1568, 1610>>, <<1632, 1641>>, <<1646, 1647>>, <<1649, 1747>>,
       <<1749, 1749>>, <<1765, 1766>>, <<1774, 1788>>, <<1791, 1791>>,
       <<1808, 1808>>, <<1810, 1839>>, <<1869, 1957>>, <<1969, 1969>>,
       <<1984, 2026>>, <<2036, 2037>>, <<2042, 2042>>, <<2048, 2069>>,
       <<2074, 2074>>, <<2084, 2084>>, <<2088, 2088>>, <<2112, 2136>>,
       <<2144, 2154>>, <<2160, 2183>>, <<2185, 2190>>, <<2208, 2249>>,
       <<2308, 2361>>, <<2365, 2365>>, <<2384, 2384>>, <<2392, 2401>>,
       <<2406, 2415>>, <<2417, 2432>>, <<2437, 2444>>, <<2447, 2448>>,
       <<2451, 2472>>, <<2474, 2480>>, <<2482, 2482>>, <<2486, 2489>>,
       <<2493, 2493>>, <<2510, 2510>>, <<2524, 2525>>, <<2527, 2529>>,
       <<2534, 2545>>, <<2548, 2553>>, <<2556, 2556>>, <<2565, 2570>>,
       <<2575, 2576>>, <<2579, 2600>>, <<2602, 2608>>, <<2610, 2611>>,
       <<2613, 2614>>, <<2616, 2617>>, <<2649, 2652>>, <<2654, 2654>>,
       <<2662, 2671>>, <<2674, 2676>>, <<2693, 2701>>, <<2703, 2705>>,
       <<2707, 2728>>, <<2730, 2736>>, <<2738, 2739>>, <<2741, 2745>>,
       <<2749, 2749>>, <<2768, 2768>>, <<2784, 2785>>, <<2790, 2799>>,
       <<2809, 2809>>, <<2821, 2828>>, <<2831, 2832>>, <<2835, 2856>>,
       <<2858, 2864>>, <<2866, 2867>>, <<2869, 2873>>, <<2877, 2877>>,
       <<2908, 2909>>, <<2911, 2913>>, <<2918, 2927>>, <<2929, 2935>>,
       <<2947, 2947>>, <<2949, 2954>>, <<2958, 2960>>, <<2962, 2965>>,
       <<2969, 2970>>, <<2972, 2972>>, <<2974, 2975>>, <<2979, 2980>>,
       <<2984, 2986>>, <<2990, 3001>>, <<3024, 3024>>, <<3046, 3058>>,
       <<3077, 3084>>, <<3086, 3088>>, <<3090, 3112>>, <<3114, 3129>>,
       <<3133, 3133>>, <<3160, 3162>>, <<3165, 3165>>, <<3168, 3169>>,
       <<3174, 3183>>, <<3192, 3198>>, <<3200, 3200>>, <<3205, 3212>>,
       <<3214, 3216>>, <<3218, 3240>>, <<3242, 3251>>, <<3253, 3257>>,
       <<3261, 3261>>, <<3293, 3294>>, <<3296, 3297>>, <<3302, 3311>>,
       <<3313, 3314>>, <<3332, 3340>>, <<3342, 3344>>, <<3346, 3386>>,
       <<3389, 3389>>, <<3406, 3406>>, <<3412, 3414>>, <<3416, 3425>>,
       <<3430, 3448>>, <<3450, 3455>>, <<3461, 3478>>, <<3482, 3505>>,
       <<3507, 3515>>, <<3517, 3517>>, <<3520, 3526>>, <<3558, 3567>>,
       <<3585, 3632>>, <<3634, 3635>>, <<3648, 3654>>, <<3664, 3673>>,
       <<3713, 3714>>, <<3716, 3716>>, <<3718, 3722>>, <<3724, 3747>>,
       <<3749, 3749>>, <<3751, 3760>>, <<3762, 3763>>, <<3773, 3773>>,
       <<3776, 3780>>, <<3782, 3782>>, <<3792, 3801>>, <<3804, 3807>>,
       <<3840, 3840>>, <<3872, 3891>>, <<3904, 3911>>, <<3913, 3948>>,
       <<3976, 3980>>, <<4096, 4138>>, <<4159, 4169>>, <<4176, 4181>>,
       <<4186, 4189>>, <<4193, 4193>>, <<4197, 4198>>, <<4206, 4208>>,
       <<4213, 4225>>, <<4238, 4238>>, <<4240, 4249>>, <<4256, 4293>>,
       <<4295, 4295>>, <<4301, 4301>>, <<4304, 4346>>, <<4348, 4680>>,
       <<4682, 4685>>, <<4688, 4694>>, <<4696, 4696>>, <<4698, 4701>>,
       <<4704, 4744>>, <<4746, 4749>>, <<4752, 4784>>, <<4786, 4789>>,
       <<4792, 4798>>, <<4800, 4800>>, <<4802, 4805>>, <<4808, 4822>>,
       <<4824, 4880>>, <<4882, 4885>>, <<4888, 4954>>, <<4969, 4988>>,
       <<4992, 5007>>, <<5024, 5109>>, <<5112, 5117>>, <<5121, 5740>>,
       <<5743, 5759>>, <<5761, 5786>>, <<5792, 5866>>, <<5870, 5880>>,
       <<5888, 5905>>, <<5919, 5937>>, <<5952, 5969>>, <<5984, 5996>>,
       <<5998, 6000>>, <<6016, 6067>>, <<6103, 6103>>, <<6108, 6108>>,
       <<6112, 6121>>, <<6128, 6137>>, <<6160, 6169>>, <<6176, 6264>>,
       <<6272, 6276>>, <<6279, 6312>>, <<6314, 6314>>, <<6320, 6389>>,
       <<6400, 6430>>, <<6470, 6509>>, <<6512, 6516>>, <<6528, 6571>>,
       <<6576, 6601>>, <<6608, 6618>>, <<6656, 6678>>, <<6688, 6740>>,
       <<6784, 6793>>, <<6800, 6809>>, <<6823, 6823>>, <<6917, 6963>>,
       <<6981, 6988>>, <<6992, 7001>>, <<7043, 7072>>, <<7086, 7141>>,
       <<7168, 7203>>, <<7232, 7241>>, <<7245, 7293>>, <<7296, 7304>>,
       <<7312, 7354>>, <<7357, 7359>>, <<7401, 7404>>, <<7406, 7411>>,
       <<7413, 7414>>, <<7418, 7418>>, <<7424, 7615>>, <<7680, 7957>>,
       <<7960, 7965>>, <<7968, 8005>>, <<8008, 8013>>, <<8016, 8023>>,
       <<8025, 8025>>, <<8027, 8027>>, <<8029, 8029>>, <<8031, 8061>>,
       <<8064, 8116>>, <<8118, 8124>>, <<8126, 8126>>, <<8130, 8132>>,
       <<8134, 8140>>, <<8144, 8147>>, <<8150, 8155>>, <<8160, 8172>>,
       <<8178, 8180>>, <<8182, 8188>>, <<8304, 8305>>, <<8308, 8313>>,
       <<8319, 8329>>, <<8336, 8348>>, <<8450, 8450>>, <<8455, 8455>>,
       <<8458, 8467>>, <<8469, 8469>>, <<8473, 8477>>, <<8484, 8484>>,
       <<8486, 8486>>, <<8488, 8488>>, <<8490, 8493>>, <<8495, 8505>>,
       <<8508, 8511>>, <<8517, 8521>>, <<8526, 8526>>, <<8528, 8585>>,
       <<9312, 9371>>, <<9450, 9471>>, <<10102, 10131>>, <<11264, 11492>>,
       <<11499, 11502>>, <<11506, 11507>>, <<11517, 11517>>,
       <<11520, 11557>>, <<11559, 11559>>, <<11565, 11565>>,
       <<11568, 11623>>, <<11631, 11631>>, <<11648, 11670>>,
       <<11680, 11686>>, <<11688, 11694>>, <<11696, 11702>>,
       <<11704, 11710>>, <<11712, 11718>>, <<11720, 11726>>,
       <<11728, 11734>>, <<11736, 11742>>, <<11823, 11823>>,
       <<12293, 12295>>, <<12321, 12329>>, <<12337, 12341>>,
       <<12344, 12348>>, <<12353, 12438>>, <<12445, 12447>>,
       <<12449, 12538>>, <<12540, 12543>>, <<12549, 12591>>,
       <<12593, 12686>>, <<12690, 12693>>, <<12704, 12735>>,
       <<12784, 12799>>, <<12832, 12841>>, <<12872, 12879>>,
       <<12881, 12895>>, <<12928, 12937>>, <<12977, 12991>>,
       <<13312, 19903>>, <<19968, 42124>>, <<42192, 42237>>,
       <<42240, 42508>>, <<42512, 42539>>, <<42560, 42606>>,
       <<42623, 42653>>, <<42656, 42735>>, <<42775, 42783>>,
       <<42786, 42888>>, <<42891, 42954>>, <<42960, 42961>>,
       <<42963, 42963>>, <<42965, 42969>>, <<42994, 43009>>,
       <<43011, 43013>>, <<43015, 43018>>, <<43020, 43042>>,
       <<43056, 43061>>, <<43072, 43123>>, <<43138, 43187>>,
       <<43216, 43225>>, <<43250, 43255>>, <<43259, 43259>>,
       <<43261, 43262>>, <<43264, 43301>>, <<43312, 43334>>,
       <<43360, 43388>>, <<43396, 43442>>, <<43471, 43481>>,
       <<43488, 43492>>, <<43494, 43518>>, <<43520, 43560>>,
       <<43584, 43586>>, <<43588, 43595>>, <<43600, 43609>>,
       <<43616, 43638>>, <<43642, 43642>>, <<43646, 43695>>,
       <<43697, 43697>>, <<43701, 43702>>, <<43705, 43709>>,
       <<43712, 43712>>, <<43714, 43714>>, <<43739, 43741>>,
       <<43744, 43754>>, <<43762, 43764>>, <<43777, 43782>>,
       <<43785, 43790>>, <<43793, 43798>>, <<43808, 43814>>,
       <<43816, 43822>>, <<43824, 43866>>, <<43868, 43881>>,
       <<43888, 44002>>, <<44016, 44025>>, <<44032, 55203>>,
       <<55216, 55238>>, <<55243, 55291>>, <<63744, 64109>>,
       <<64112, 64217>>, <<64256, 64262>>, <<64275, 64279>>,
       <<64285, 64285>>, <<64287, 64296>>, <<64298, 64310>>,
       <<64312, 64316>>, <<64318, 64318>>, <<64320, 64321>>,
       <<64323, 64324>>, <<64326, 64433>>, <<64467, 64829>>,
       <<64848, 64911>>, <<64914, 64967>>, <<65008, 65019>>,
       <<65136, 65140>>, <<65142, 65276>>, <<65296, 65305>>,
       <<65313, 65338>>, <<65345, 65370>>, <<65382, 65470>>,
       <<65474, 65479>>, <<65482, 65487>>, <<65490, 65495>>,
       <<65498, 65500>>, <<65536, 65547>>, <<65549, 65574>>,
       <<65576, 65594>>, <<65596, 65597>>, <<65599, 65613>>,
       <<65616, 65629>>, <<65664, 65786>>, <<65799, 65843>>,
       <<65856, 65912>>, <<65930, 65931>>, <<66176, 66204>>,
       <<66208, 66256>>, <<66273, 66299>>, <<66304, 66339>>,
       <<66349, 66378>>, <<66384, 66421>>, <<66432, 66461>>,
       <<66464, 66499>>, <<66504, 66511>>, <<66513, 66517>>,
       <<66560, 66717>>, <<66720, 66729>>, <<66736, 66771>>,
       <<66776, 66811>>, <<66816, 66855>>, <<66864, 66915>>,
       <<66928, 66938>>, <<66940, 66954>>, <<66956, 66962>>,
       <<66964, 66965>>, <<66967, 66977>>, <<66979, 66993>>,
       <<66995, 67001>>, <<67003, 67004>>, <<67072, 67382>>,
       <<67392, 67413>>, <<67424, 67431>>, <<67456, 67461>>,
       <<67463, 67504>>, <<67506, 67514>>, <<67584, 67589>>,
       <<67592, 67592>>, <<67594, 67637>>, <<67639, 67640>>,
       <<67644, 67644>>, <<67647, 67669>>, <<67672, 67702>>,
       <<67705, 67742>>, <<67751, 67759>>, <<67808, 67826>>,
       <<67828, 67829>>, <<67835, 67867>>, <<67872, 67897>>,
       <<67968, 68023>>, <<68028, 68047>>, <<68050, 68096>>,
       <<68112, 68115>>, <<68117, 68119>>, <<68121, 68149>>,
       <<68160, 68168>>, <<68192, 68222>>, <<68224, 68255>>,
       <<68288, 68295>>, <<68297, 68324>>, <<68331, 68335>>,
       <<68352, 68405>>, <<68416, 68437>>, <<68440, 68466>>,
       <<68472, 68497>>, <<68521, 68527>>, <<68608, 68680>>,
       <<68736, 68786>>, <<68800, 68850>>, <<68858, 68899>>,
       <<68912, 68921>>, <<69216, 69246>>, <<69248, 69289>>,
       <<69296, 69297>>, <<69376, 69415>>, <<69424, 69445>>,
       <<69457, 69460>>, <<69488, 69505>>, <<69552, 69579>>,
       <<69600, 69622>>, <<69635, 69687>>, <<69714, 69743>>,
       <<69745, 69746>>, <<69749, 69749>>, <<69763, 69807>>,
       <<69840, 69864>>, <<69872, 69881>>, <<69891, 69926>>,
       <<69942, 69951>>, <<69956, 69956>>, <<69959, 69959>>,
       <<69968, 70002>>, <<70006, 70006>>, <<70019, 70066>>,
       <<70081, 70084>>, <<70096, 70106>>, <<70108, 70108>>,
       <<70113, 70132>>, <<70144, 70161>>, <<70163, 70187>>,
       <<70272, 70278>>, <<70280, 70280>>, <<70282, 70285>>,
       <<70287, 70301>>, <<70303, 70312>>, <<70320, 70366>>,
       <<70384, 70393>>, <<70405, 70412>>, <<70415, 70416>>,
       <<70419, 70440>>, <<70442, 70448>>, <<70450, 70451>>,
       <<70453, 70457>>, <<70461, 70461>>, <<70480, 70480>>,
       <<70493, 70497>>, <<70656, 70708>>, <<70727, 70730>>,
       <<70736, 70745>>, <<70751, 70753>>, <<70784, 70831>>,
       <<70852, 70853>>, <<70855, 70855>>, <<70864, 70873>>,
       <<71040, 71086>>, <<71128, 71131>>, <<71168, 71215>>,
       <<71236, 71236>>, <<71248, 71257>>, <<71296, 71338>>,
       <<71352, 71352>>, <<71360, 71369>>, <<71424, 71450>>,
       <<71472, 71483>>, <<71488, 71494>>, <<71680, 71723>>,
       <<71840, 71922>>, <<71935, 71942>>, <<71945, 71945>>,
       <<71948, 71955>>, <<71957, 71958>>, <<71960, 71983>>,
       <<71999, 71999>>, <<72001, 72001>>, <<72016, 72025>>,
       <<72096, 72103>>, <<72106, 72144>>, <<72161, 72161>>,
       <<72163, 72163>>, <<72192, 72192>>, <<72203, 72242>>,
       <<72250, 72250>>, <<72272, 72272>>, <<72284, 72329>>,
       <<72349, 72349>>, <<72368, 72440>>, <<72704, 72712>>,
       <<72714, 72750>>, <<72768, 72768>>, <<72784, 72812>>,
       <<72818, 72847>>, <<72960, 72966>>, <<72968, 72969>>,
       <<72971, 73008>>, <<73030, 73030>>, <<73040, 73049>>,
       <<73056, 73061>>, <<73063, 73064>>, <<73066, 73097>>,
       <<73112, 73112>>, <<73120, 73129>>, <<73440, 73458>>,
       <<73648, 73648>>, <<73664, 73684>>, <<73728, 74649>>,
       <<74752, 74862>>, <<74880, 75075>>, <<77712, 77808>>,
       <<77824, 78894>>, <<82944, 83526>>, <<92160, 92728>>,
       <<92736, 92766>>, <<92768, 92777>>, <<92784, 92862>>,
       <<92864, 92873>>, <<92880, 92909>>, <<92928, 92975>>,
       <<92992, 92995>>, <<93008, 93017>>, <<93019, 93025>>,
       <<93027, 93047>>, <<93053, 93071>>, <<93760, 93846>>,
       <<93952, 94026>>, <<94032, 94032>>, <<94099, 94111>>,
       <<94176, 94177>>, <<94179, 94179>>, <<94208, 100343>>,
       <<100352, 101589>>, <<101632, 101640>>, <<110576, 110579>>,
       <<110581, 110587>>, <<110589, 110590>>, <<110592, 110882>>,
       <<110928, 110930>>, <<110948, 110951>>, <<110960, 111355>>,
       <<113664, 113770>>, <<113776, 113788>>, <<113792, 113800>>,
       <<113808, 113817>>, <<119520, 119539>>, <<119648, 119672>>,
       <<119808, 119892>>, <<119894, 119964>>, <<119966, 119967>>,
       <<119970, 119970>>, <<119973, 119974>>, <<119977, 119980>>,
       <<119982, 119993>>, <<119995, 119995>>, <<119997, 120003>>,
       <<120005, 120069>>, <<120071, 120074>>, <<120077, 120084>>,
       <<120086, 120092>>, <<120094, 120121>>, <<120123, 120126>>,
       <<120128, 120132>>, <<120134, 120134>>, <<120138, 120144>>,
       <<120146, 120485>>, <<120488, 120512>>, <<120514, 120538>>,
       <<120540, 120570>>, <<120572, 120596>>, <<120598, 120628>>,
       <<120630, 120654>>, <<120656, 120686>>, <<120688, 120712>>,
       <<120714, 120744>>, <<120746, 120770>>, <<120772, 120779>>,
       <<120782, 120831>>, <<122624, 122654>>, <<123136, 123180>>,
       <<123191, 123197>>, <<123200, 123209>>, <<123214, 123214>>,
       <<123536, 123565>>, <<123584, 123627>>, <<123632, 123641>>,
       <<124896, 124902>>, <<124904, 124907>>, <<124909, 124910>>,
       <<124912, 124926>>, <<124928, 125124>>, <<125127, 125135>>,
       <<125184, 125251>>, <<125259, 125259>>, <<125264, 125273>>,
       <<126065, 126123>>, <<126125, 126127>>, <<126129, 126132>>,
       <<126209, 126253>>, <<126255, 126269>>, <<126464, 126467>>,
       <<126469, 126495>>, <<126497, 126498>>, <<126500, 126500>>,
       <<126503, 126503>>, <<126505, 126514>>, <<126516, 126519>>,
       <<126521, 126521>>, <<126523, 126523>>, <<126530, 126530>>,
       <<126535, 126535>>, <<126537, 126537>>, <<126539, 126539>>,
       <<126541, 126543>>, <<126545, 126546>>, <<126548, 126548>>,
       <<126551, 126551>>, <<126553, 126553>>, <<126555, 126555>>,
       <<126557, 126557>>, <<126559, 126559>>, <<126561, 126562>>,
       <<126564, 126564>>, <<126567, 126570>>, <<126572, 126578>>,
       <<126580, 126583>>, <<126585, 126588>>, <<126590, 126590>>,
       <<126592, 126601>>, <<126603, 126619>>, <<126625, 126627>>,
       <<126629, 126633>>, <<126635, 126651>>, <<127232, 127244>>,
       <<130032, 130041>>, <<131072, 173791>>, <<173824, 177976>>,
       <<177984, 178205>>, <<178208, 183969>>, <<183984, 191456>>,
       <<194560, 195101>>, <<196608, 201546>> >>

\* \w: [a-zA-Z0-9_] and every alphanumeric of any other script
WordChar(c) ==
    \/ c \in Upper \cup Lower \cup AsciiDigit \cup {"_"}
    \/ Len(c) > 1 /\ InRanges(CodePoint(c), WordRanges)

(***************************************************************************)
(* Regular expressions: a pattern is a tree of the nodes below, and        *)
(* Ends(r, s, i) is the set of positions j at which a match of r that      *)
(* starts after the first i characters of s can end.  A backtracking       *)
(* matcher finds a match exactly when one exists.                          *)
(***************************************************************************)
Cls(S) == [op |-> "cls", set |-> S, word |-> FALSE]
\* a class that holds \w beside the characters of S, as [\w\.-]
WordCls(S) == [op |-> "cls", set |-> S, word |-> TRUE]
Lit(c) == Cls({c})
Cat(parts) == [op |-> "cat", parts |-> parts]
\* r{lo,hi}, and r{lo,} (also r* and r+) which has no upper limit
Rep(r, lo, hi) == [op |-> "rep", r |-> r, lo |-> lo, hi |-> hi, open |-> FALSE]
AtLeast(r, lo) == [op |-> "rep", r |-> r, lo |-> lo, hi |-> lo, open |-> TRUE]
Opt(r) == Rep(r, 0, 1)
Bol == [op |-> "bol"]
Eol == [op |-> "eol"]

RECURSIVE Ends(_, _, _)
RECURSIVE CatEnds(_, _, _)
RECURSIVE RepEnds(_, _, _, _)

Ends(r, s, i) ==
    CASE r.op = "cls" -> IF /\ i < Len(s)
                            /\ \/ s[i + 1] \in r.set
                               \/ r.word /\ WordChar(s[i + 1])
                         THEN {i + 1} ELSE {}
      [] r.op = "bol" -> IF i = 0 THEN {i} ELSE {}
      [] r.op = "eol" -> IF i = Len(s) \/ (i = Len(s) - 1 /\ s[Len(s)] = "\n")
                         THEN {i} ELSE {}
      [] r.op = "cat" -> CatEnds(r.parts, s, {i})
      [] r.op = "rep" -> RepEnds(r, s, {i}, 0)

CatEnds(parts, s, from) ==
    IF Len(parts) = 0 \/ from = {} THEN from
    ELSE CatEnds(Tail(parts), s, UNION {Ends(Head(parts), s, j) : j \in from})

\* from: where k repetitions of r.r can end
RepEnds(r, s, from, k) ==
    IF from = {} THEN {}
    ELSE LET here == IF k >= r.lo THEN from ELSE {}
             more == IF ~r.open /\ k >= r.hi THEN {}
                     ELSE RepEnds(r, s, UNION {Ends(r.r, s, j) : j \in from}, k + 1)
         IN  here \cup more

\* re.match(pattern, text): a match anchored at the start of the text
ReMatch(pattern, s) == Ends(pattern, s, 0) # {}

(***************************************************************************)
(* self.structure_patterns, in the order the dict literal gives them.      *)
(***************************************************************************)
\* r'^[A-Z\s]{4,}$'
HeaderPatternNoEol == Cat(<<Bol, AtLeast(Cls(Upper \cup Whitespace), 4)>>)
HeaderPattern == Cat(<<Bol, AtLeast(Cls(Upper \cup Whitespace), 4), Eol>>)
\* r'\d{1,2}[-/]\d{1,2}[-/]\d{2,4}'
DatePattern == Cat(<<Rep(Cls(Digit), 1, 2), Cls({"-", "/"}),
                     Rep(Cls(Digit), 1, 2), Cls({"-", "/"}),
                     Rep(Cls(Digit), 2, 4)>>)
\* r'[\w\.-]+@[\w\.-]+\.\w+'
EmailPattern == Cat(<<AtLeast(WordCls({".", "-"}), 1), Lit("@"),
                      AtLeast(WordCls({".", "-"}), 1), Lit("."),
                      AtLeast(WordCls({}), 1)>>)
\* r'\+?[\d\-\(\)\s]{10,}'
PhonePattern == Cat(<<Opt(Lit("+")),
                      AtLeast(Cls(Digit \cup {"-", "(", ")"} \cup Whitespace), 10)>>)
\* r'\$\s*\d+(?:,\d{3})*(?:\.\d{2})?'
AmountPattern == Cat(<<Lit("$"), AtLeast(Cls(Whitespace), 0),
                       AtLeast(Cls(Digit), 1),
                       AtLeast(Cat(<<Lit(","), Rep(Cls(Digit), 3, 3)>>), 0),
                       Opt(Cat(<<Lit("."), Rep(Cls(Digit), 2, 2)>>))>>)
\* r'^\s*[•\-\*]\s'
ListItemPattern == Cat(<<Bol, AtLeast(Cls(Whitespace), 0),
                         Cls({Bullet, "-", "*"}), Cls(Whitespace)>>)

structure_patterns ==
    << [name |-> "header",    pattern |-> HeaderPattern],
       [name |-> "date",      pattern |-> DatePattern],
       [name |-> "email",     pattern |-> EmailPattern],
       [name |-> "phone",     pattern |-> PhonePattern],
       [name |-> "amount",    pattern |-> AmountPattern],
       [name |-> "list_item", pattern |-> ListItemPattern] >>

(***************************************************************************)
(* _determine_element_type: the first pattern, in dict order, that         *)
(* matches; then the colon test; then 'text'.                              *)
(***************************************************************************)
NoMatch == "<none>"

RECURSIVE FirstMatch(_, _)
FirstMatch(items, s) ==
    IF Len(items) = 0 THEN NoMatch
    ELSE IF ReMatch(Head(items).pattern, s) THEN Head(items).name
    ELSE FirstMatch(Tail(items), s)

RECURSIVE LastMatch(_, _)
LastMatch(items, s) ==
    IF Len(items) = 0 THEN NoMatch
    ELSE IF ReMatch(items[Len(items)].pattern, s) THEN items[Len(items)].name
    ELSE LastMatch(SubSeq(items, 1, Len(items) - 1), s)

\* a plausible slip: a later matching rule overrides an earlier one
DetermineElementTypeLastWins(s) ==
    LET m == LastMatch(structure_patterns, s)
    IN  IF m # NoMatch THEN m
        ELSE IF ":" \in Range(s) THEN "form_field" ELSE "text"

DetermineElementType(s) ==
    LET m == FirstMatch(structure_patterns, s)
    IN  IF m # NoMatch THEN m
        ELSE IF ":" \in Range(s) THEN "form_field" ELSE "text"

(***************************************************************************)
(* str.strip(): leading and trailing whitespace removed.                   *)
(***************************************************************************)
RECURSIVE LStrip(_)
LStrip(s) == IF Len(s) > 0 /\ Head(s) \in Whitespace THEN LStrip(Tail(s)) ELSE s

RECURSIVE RStrip(_)
RStrip(s) == IF Len(s) > 0 /\ s[Len(s)] \in Whitespace
             THEN RStrip(SubSeq(s, 1, Len(s) - 1)) ELSE s

Strip(s) == RStrip(LStrip(s))

(***************************************************************************)
(* Real numbers, as fractions with a positive denominator.  A 'conf'       *)
(* entry that float() rejects is NotANumber.                               *)
(***************************************************************************)
Rat(n, d) == [num |-> n, den |-> d]
NotANumber == Rat(0, 0)
IsNumber(c) == c.den # 0
RatDiv(a, k) == Rat(a.num, a.den * k)
RatGT(a, b) == a.num * b.den > b.num * a.den
RatGE(a, b) == a.num * b.den >= b.num * a.den
One == Rat(1, 1)
Half == Rat(5, 10)

(***************************************************************************)
(* PDFElement; bbox None is the empty tuple.                               *)
(***************************************************************************)
None == <<>>

PDFElement(type, txt, page, bbox, confidence) ==
    [type |-> type, text |-> txt, page |-> page, bbox |-> bbox,
     confidence |-> confidence]

(***************************************************************************)
(* extract_text_with_formatting, lines 63-76: the page's word tokens, each *)
(* a record [text, bbox], become classified elements; a token that strips  *)
(* to nothing is skipped.                                                  *)
(***************************************************************************)
RECURSIVE NativeTextElements(_, _)
NativeTextElements(words, page_no) ==
    IF Len(words) = 0 THEN <<>>
    ELSE LET elem == Head(words)
             txt == Strip(elem.text)
         IN  (IF Len(txt) = 0 THEN <<>>
              ELSE <<PDFElement(DetermineElementType(txt), txt, page_no,
                                elem.bbox, One)>>)
             \o NativeTextElements(Tail(words), page_no)

(***************************************************************************)
(* _process_form_elements: every cell of table.extract() that is neither   *)
(* None nor blank becomes a form_field, row by row.  A cell is a record    *)
(* [is_none, text].                                                        *)
(***************************************************************************)
RECURSIVE RowElements(_, _)
RowElements(row, page_no) ==
    IF Len(row) = 0 THEN <<>>
    ELSE LET cell == Head(row)
         IN  (IF ~cell.is_none /\ Len(cell.text) > 0 /\ Len(Strip(cell.text)) > 0
              THEN <<PDFElement("form_field", Strip(cell.text), page_no, None, One)>>
              ELSE <<>>)
             \o RowElements(Tail(row), page_no)

RECURSIVE ProcessFormElements(_, _)
ProcessFormElements(rows, page_no) ==
    IF Len(rows) = 0 THEN <<>>
    ELSE RowElements(Head(rows), page_no) \o ProcessFormElements(Tail(rows), page_no)

(***************************************************************************)
(* _extract_images: an entry of page.images is a record [decodable, ocr];  *)
(* Image.open raises on one that is not decodable, which is logged and     *)
(* left out.  Line 126 reads page.images inside hasattr(), which answers   *)
(* False when the read raises AttributeError and lets any other exception  *)
(* through: HasAttr and AttrRaises give the two for an attribute read      *)
(* [raises, attribute_error, items], and ImagesOf what the loop of line    *)
(* 127 then iterates over.                                                 *)
(***************************************************************************)
IsDecodable(img) == img.decodable

ExtractImages(imgs) == SelectSeq(imgs, IsDecodable)

HasAttr(attr) == ~(attr.raises /\ attr.attribute_error)

AttrRaises(attr) == attr.raises /\ ~attr.attribute_error

ImagesOf(attr) == IF HasAttr(attr) THEN attr.items ELSE <<>>

(***************************************************************************)
(* _process_images.  img.ocr is what pytesseract.image_to_data does with   *)
(* the image: [raises, text, conf], the two lists of the result dict.      *)
(* Lines 148-157 run inside the try of line 140: an exception at span i    *)
(* (no conf[i], or a conf[i] float() rejects) ends the image's loop at     *)
(* line 159 and keeps what the loop appended before.                       *)
(***************************************************************************)
ConfDivisor == 100

PassesThresholdInclusive(confidence) == RatGE(confidence, Half)

\* line 151: confidence > 0.5
PassesThreshold(confidence) == RatGT(confidence, Half)

RECURSIVE SpanElements(_, _, _)
SpanElements(ocr_result, i, page_no) ==
    IF i > Len(ocr_result.text) THEN <<>>
    ELSE LET txt == Strip(ocr_result.text[i])
         IN  IF Len(txt) = 0 THEN SpanElements(ocr_result, i + 1, page_no)
             ELSE IF i > Len(ocr_result.conf) \/ ~IsNumber(ocr_result.conf[i])
                  THEN <<>>
             ELSE LET confidence == RatDiv(ocr_result.conf[i], ConfDivisor)
                  IN  (IF PassesThreshold(confidence)
                       THEN <<PDFElement("ocr_text", txt, page_no, None, confidence)>>
                       ELSE <<>>)
                      \o SpanElements(ocr_result, i + 1, page_no)

ImageElements(img, page_no) ==
    IF img.ocr.raises THEN <<>> ELSE SpanElements(img.ocr, 1, page_no)

RECURSIVE ProcessImages(_, _)
ProcessImages(images, page_no) ==
    IF Len(images) = 0 THEN <<>>
    ELSE ImageElements(Head(images), page_no) \o ProcessImages(Tail(images), page_no)

(***************************************************************************)
(* _group_elements.  A dict is the sequence of its [key, value] entries in *)
(* insertion order, which is the order json.dump writes them in.           *)
(***************************************************************************)
HasKey(d, k) == \E i \in 1..Len(d) : d[i].key = k
KeyIndex(d, k) == CHOOSE i \in 1..Len(d) : d[i].key = k
Get(d, k) == d[KeyIndex(d, k)].value

\* asdict(element)
AsDict(e) == [type |-> e.type, text |-> e.text, page |-> e.page,
              bbox |-> e.bbox, confidence |-> e.confidence]

\* a plausible slip: insert(0, item) in place of append(item)
DictAppendFront(d, k, item) ==
    IF HasKey(d, k)
    THEN [d EXCEPT ![KeyIndex(d, k)].value = <<item>> \o @]
    ELSE Append(d, [key |-> k, value |-> <<item>>])

\* grouped[k].append(item) on a defaultdict(list)
DictAppend(d, k, item) ==
    IF HasKey(d, k)
    THEN [d EXCEPT ![KeyIndex(d, k)].value = Append(@, item)]
    ELSE Append(d, [key |-> k, value |-> <<item>>])

\* grouped[k] = v
DictSet(d, k, v) ==
    IF HasKey(d, k)
    THEN [d EXCEPT ![KeyIndex(d, k)].value = v]
    ELSE Append(d, [key |-> k, value |-> v])

PageKey(n) == "page_" \o ToString(n)
TypeKey(t) == "type_" \o t

\* lines 169-171
RECURSIVE GroupLoop(_, _)
GroupLoop(elements_, grouped) ==
    IF Len(elements_) = 0 THEN grouped
    ELSE LET element == Head(elements_)
         IN  GroupLoop(Tail(elements_),
                       DictAppend(DictAppend(grouped, PageKey(element.page),
                                             AsDict(element)),
                                  TypeKey(element.type), AsDict(element)))

MaxOf(S) == CHOOSE m \in S : \A n \in S : n <= m

NoError == [type |-> "", raised_by |-> ""]
\* max() of an empty generator: "ValueError: max() arg is an empty sequence"
MaxOfEmpty == [type |-> "ValueError", raised_by |-> "max"]
Now == "now"

\* lines 174-179; element_types is list(set(...)), a list in no fixed order,
\* kept here as the set
Metadata(elements_, ocr) ==
    [total_pages |-> MaxOf({elements_[i].page : i \in 1..Len(elements_)}),
     element_types |-> {elements_[i].type : i \in 1..Len(elements_)},
     processing_date |-> Now,
     ocr_enabled |-> ocr]

GroupElements(elements_, ocr) ==
    IF Len(elements_) = 0
    THEN [raises |-> TRUE, error |-> MaxOfEmpty, value |-> <<>>]
    ELSE [raises |-> FALSE, error |-> NoError,
          value |-> DictSet(GroupLoop(elements_, <<>>), "metadata",
                            Metadata(elements_, ocr))]

(***************************************************************************)
(* The word tokens the model classifies: every text over Alphabet up to    *)
(* MaxTextLen characters, and longer samples of each rule.                 *)
(***************************************************************************)
Alphabet == {"A", "u044f", "1", " ", "-", ":", "$", "@", ".", "u0661", "u000b"}

ShortTexts == UNION {[1..n -> Alphabet] : n \in 0..MaxTextLen}

SampleTexts ==
    { <<"I","N","V","O","I","C","E">>,
      <<"N","A","M","E",":">>,
      <<"F","U","L","L"," ","N","A","M","E">>,
      <<"F","U","L","L"," ","N","A","M","E",":">>,
      <<"A","B","C","D","e">>,
      <<"1","2","/","3","1","/","2","0","2","4">>,
      <<"1","-","2","-","3","4">>,
      <<"1","1","-","1","1","-","1","1","1","1">>,
      <<"1","-","2","-","3">>,
      <<"j","o","h","n","@","x",".","c","o","m">>,
      <<"1","-","2","@","3","-","4",".","5","6">>,
      <<"a","@","b",".","c",":">>,
      <<"a","@","b">>,
      <<"+","1"," ","(","5","5","5",")"," ","1","2","3","-","4","5","6","7">>,
      <<"5","5","5","-","1","2","3","-","4","5","6","7">>,
      <<"1","2","3","4","5","6","7","8","9">>,
      <<"-"," ","1","2","3","4","5","6","7","8">>,
      <<"-"," ","-"," ","-"," ","-"," ","-"," ","-">>,
      <<"$","1",",","2","3","4",".","5","6">>,
      <<"T","o","t","a","l",":"," ","$","1",",","2","3","4",".","5","6">>,
      <<"$"," ","5",":">>,
      <<"1","2","3","4",".","5","6">>,
      <<Bullet," ","i","t","e","m">>,
      <<"-"," ","i","t","e","m",":">>,
      <<"*"," ","A","B","C","D">>,
      <<"*","i","t","e","m">>,
      <<" "," ","P","a","i","d"," ">>,
      <<"\t","T","O","T","A","L","\n">>,
      <<"A","B","\n","C","D">>,
      <<" ","\t"," ">>,
      <<"u00e9","@","b",".","c">>,
      <<"a","@","b",".","u00e9">>,
      <<"a","@","b",".","u20ac">>,
      <<"a","@","b",".","u044f">>,
      <<"u044f","@","b",".","c">>,
      <<"a","@","u044f",".","c">>,
      <<"a","@","b",".","u0250">>,
      <<"u03b2","u0416","@","u4e2f",".","u1d7ce","u20000">>,
      <<"a","@","b",".","u00d7">>,
      <<"u2014","@","b",".","c">>,
      <<"u4e2d","u00df","@","u00b2",".","u03b1">>,
      <<"u0661","u0662","/","u0663","u0661","/","u0662","u0664">>,
      <<"u0969","-","uff11","-","2","4">>,
      <<"$","u0665">>,
      <<"$","u00a0","5",".","u0660","u0660">>,
      <<"$","u00b2">>,
      <<"+","u0661","u0662","u0663","u2003","u0664","u0665","u0666","-","7","8","9">>,
      <<"A","B","u000b","C","D">>,
      <<"A","B","u00a0","C","D",":">>,
      <<"N","A","M","u00c9">>,
      <<"u000b","P","a","i","d">>,
      <<"u0085","T","O","T","A","L","u001c","u3000">>,
      <<"-","u00a0","i","t","e","m">>,
      <<"u00a0",Bullet,"u2028","x">>,
      <<"u001f","u2029","u00a0">> }

RawTexts == ShortTexts \cup SampleTexts

Skipped == "<skipped>"
Unset == "<unset>"

(***************************************************************************)
(* Lines 64-69: strip the token, skip it when nothing is left, classify.   *)
(***************************************************************************)
(***************************************************************************)
(* The images the OCR adapter is run on: one image with up to MaxSpans     *)
(* recognized spans, its conf list complete, one entry short, or holding   *)
(* an entry that is no number; or an image that fails to decode or to be   *)
(* recognized; alone or beside a sibling image that succeeds.              *)
(***************************************************************************)
OcrTexts == { <<"h", "i">>, <<" ", "u2003">>, <<"u0085", "o", "k", "\n">> }

OcrConfs == { Rat(-1, 1), Rat(0, 1), Rat(50, 1), Rat(5001, 100), Rat(51, 1),
              Rat(100, 1), NotANumber }

OcrResults ==
    UNION { { [raises |-> FALSE, text |-> t, conf |-> c] :
                t \in [1..n -> OcrTexts],
                c \in [1..n -> OcrConfs] \cup
                      (IF n > 0 THEN [1..(n - 1) -> OcrConfs] ELSE {}) } :
            n \in 0..MaxSpans }

OcrRaises == [raises |-> TRUE, text |-> <<>>, conf |-> <<>>]

PageImage(decodable, ocr) == [decodable |-> decodable, ocr |-> ocr]

SiblingImage ==
    PageImage(TRUE, [raises |-> FALSE,
                     text |-> << <<"s", "i", "b">> >>, conf |-> <<Rat(96, 1)>>])

PageImages == { PageImage(TRUE, r) : r \in OcrResults }
              \cup { PageImage(TRUE, OcrRaises), PageImage(FALSE, OcrRaises) }

PageImageLists ==
    { pre \o <<img>> \o post :
        pre \in {<<>>, <<SiblingImage>>}, img \in PageImages,
        post \in {<<>>, <<SiblingImage>>} }

(***************************************************************************)
(* The documents the converter is run on.  A page is what pdfplumber gives *)
(* for it: words (extract_words), tables (find_tables, each with what its  *)
(* extract() returns) and images (page.images), each of which may raise;   *)
(* NoSuchAttribute is a read that raises AttributeError, Unreadable one    *)
(* that raises any other exception.                                        *)
(***************************************************************************)
Word(txt) == [text |-> txt, bbox |-> <<10, 20, 30, 40>>]
Cell(txt) == [is_none |-> FALSE, text |-> txt]
NoneCell == [is_none |-> TRUE, text |-> <<>>]
Table(rows) == [raises |-> FALSE, rows |-> rows]
BrokenTable == [raises |-> TRUE, rows |-> <<>>]
Reads(items) == [raises |-> FALSE, attribute_error |-> FALSE, items |-> items]
Unreadable == [raises |-> TRUE, attribute_error |-> FALSE, items |-> <<>>]
NoSuchAttribute == [raises |-> TRUE, attribute_error |-> TRUE, items |-> <<>>]
Page(words, tables, images) == [words |-> words, tables |-> tables, images |-> images]

TInvoice == <<"I","N","V","O","I","C","E">>
TTotal == <<"T","o","t","a","l",":"," ","$","1">>
TEmail == <<"a","@","b",".","c">>
TPaid == <<"u000b","P","a","i","d"," ">>
TDate == <<"1","/","2","/","2","4">>
TBlank == <<" ","u00a0">>

Table1 == Table(<< <<Cell(TPaid), NoneCell>>, <<Cell(<<>>), Cell(TDate)>> >>)
Table2 == Table(<< <<Cell(TBlank), Cell(TInvoice)>> >>)

GoodImage ==
    PageImage(TRUE, [raises |-> FALSE,
                     text |-> <<TPaid, TBlank, TInvoice, TEmail>>,
                     conf |-> <<Rat(96, 1), Rat(-1, 1), Rat(50, 1), Rat(51, 1)>>])
FaintImage ==
    PageImage(TRUE, [raises |-> FALSE, text |-> <<TPaid>>, conf |-> <<Rat(30, 1)>>])
HalfReadImage ==
    PageImage(TRUE, [raises |-> FALSE,
                     text |-> <<TDate, TPaid>>, conf |-> <<Rat(88, 1), NotANumber>>])

TextPage == Page(Reads(<<Word(TInvoice), Word(TBlank), Word(TTotal), Word(TEmail)>>),
                 Reads(<<>>), Reads(<<>>))
TablePage == Page(Reads(<<>>), Reads(<<Table1>>), Reads(<<>>))
MixedPage == Page(Reads(<<Word(TPaid)>>), Reads(<<Table1, Table2>>),
                  Reads(<<PageImage(FALSE, OcrRaises), GoodImage,
                          PageImage(TRUE, OcrRaises), HalfReadImage>>))
ScanPage == Page(Reads(<<>>), Reads(<<>>), Reads(<<GoodImage>>))
BlankPage == Page(Reads(<<Word(TBlank)>>), Reads(<<>>), Reads(<<FaintImage>>))
BadWordsPage == Page(Unreadable, Reads(<<>>), Reads(<<>>))
BadTablesPage == Page(Reads(<<Word(TPaid)>>), Unreadable, Reads(<<>>))
BadExtractPage == Page(Reads(<<>>), Reads(<<Table1, BrokenTable>>), Reads(<<>>))
BadImagesPage == Page(Reads(<<Word(TInvoice)>>), Reads(<<>>), Unreadable)
NoImagesAttrPage == Page(Reads(<<Word(TInvoice)>>), Reads(<<>>), NoSuchAttribute)

Pages == {TextPage, TablePage, MixedPage, ScanPage, BlankPage,
          BadWordsPage, BadTablesPage, BadExtractPage, BadImagesPage,
          NoImagesAttrPage}

CorruptDocument == [corrupt |-> TRUE, pages |-> <<>>]

Documents ==
    {CorruptDocument} \cup
    UNION { { [corrupt |-> FALSE, pages |-> ps] : ps \in [1..n -> Pages] } :
            n \in 0..MaxPages }

(***************************************************************************)
(* main.py: the size cap, the chunk size of file.read, and the uploads     *)
(* the endpoint is sent.                                                   *)
(***************************************************************************)
MAX_FILE_SIZE == 10 * 1024 * 1024
ChunkSize == 1024 * 1024
PdfContentType == "application/pdf"

ContentTypes == {PdfContentType, "text/plain"}
Uploads == {0, 1, ChunkSize + 1, MAX_FILE_SIZE, MAX_FILE_SIZE + 1,
            MAX_FILE_SIZE + ChunkSize + 1}

NoResponse == [status |-> 0, detail |-> ""]
NoResult == <<>>

(***************************************************************************)
(* convert_to_json, step by step.  pc is the converter's position:         *)
(* "open", then per page "words", "tables", "images", then "group",        *)
(* "save", and "returned" or "raised".                                     *)
(***************************************************************************)
\* enumerate(pdf.pages, 1)
FirstPageNum == 1

PdfError(where) == [type |-> "PdfError", raised_by |-> where]

CurrentPage == document.pages[page_num]

\* the page loop of line 54 moves on, or ends and line 94 returns
AfterPage ==
    IF page_num < Len(document.pages)
    THEN /\ page_num' = page_num + 1
         /\ pc' = "words"
    ELSE /\ pc' = "group"
         /\ UNCHANGED page_num

\* a plausible slip: the handler logs the error and returns what it has
SwallowFromExtract(err, elems) ==
    /\ pc' = "group"
    /\ error' = err
    /\ elements' = elems
    /\ UNCHANGED <<page_num, agg_calls, agg_input, result, saved>>

\* lines 90-92: log, re-raise; nothing below line 195 runs
RaiseFromExtract(err, elems) ==
    /\ pc' = "raised"
    /\ error' = err
    /\ elements' = elems
    /\ UNCHANGED <<page_num, agg_calls, agg_input, result, saved>>

\* line 53
OpenPdf ==
    /\ pc = "open"
    /\ IF document.corrupt
       THEN RaiseFromExtract(PdfError("open"), elements)
       ELSE /\ IF Len(document.pages) = 0
               THEN pc' = "group" /\ UNCHANGED page_num
               ELSE pc' = "words" /\ page_num' = FirstPageNum
            /\ UNCHANGED <<elements, error, agg_calls, agg_input, result, saved>>
    /\ UNCHANGED <<cfg, evars, cvars, ovars, gvars>>

\* lines 56-76
ExtractWords ==
    /\ pc = "words"
    /\ IF CurrentPage.words.raises
       THEN RaiseFromExtract(PdfError("extract_words"), elements)
       ELSE /\ elements' = elements \o NativeTextElements(CurrentPage.words.items, page_num)
            /\ pc' = "tables"
            /\ UNCHANGED <<page_num, error, agg_calls, agg_input, result, saved>>
    /\ UNCHANGED <<cfg, evars, cvars, ovars, gvars>>

\* the tables before the first one whose extract() raises
RECURSIVE ReadableTables(_)
ReadableTables(tables) ==
    IF Len(tables) = 0 \/ Head(tables).raises THEN <<>>
    ELSE <<Head(tables)>> \o ReadableTables(Tail(tables))

RECURSIVE TablesElements(_, _)
TablesElements(tables, n) ==
    IF Len(tables) = 0 THEN <<>>
    ELSE ProcessFormElements(Head(tables).rows, n) \o TablesElements(Tail(tables), n)

\* lines 79-82
ProcessTables ==
    /\ pc = "tables"
    /\ LET form == CurrentPage.tables
           done == ReadableTables(form.items)
       IN  IF form.raises
           THEN RaiseFromExtract(PdfError("find_tables"), elements)
           ELSE IF Len(done) < Len(form.items)
           THEN RaiseFromExtract(PdfError("extract"),
                                 elements \o TablesElements(done, page_num))
           ELSE /\ elements' = elements \o TablesElements(form.items, page_num)
                /\ pc' = "images"
                /\ UNCHANGED <<page_num, error, agg_calls, agg_input, result, saved>>
    /\ UNCHANGED <<cfg, evars, cvars, ovars, gvars>>

\* a plausible slip: the images are processed whatever ocr_enabled says
ProcessPageImagesAlways ==
    /\ pc = "images"
    /\ IF AttrRaises(CurrentPage.images)
       THEN RaiseFromExtract(PdfError("images"), elements)
       ELSE /\ elements' = elements \o
                  ProcessImages(ExtractImages(ImagesOf(CurrentPage.images)), page_num)
            /\ AfterPage
            /\ UNCHANGED <<error, agg_calls, agg_input, result, saved>>
    /\ UNCHANGED <<cfg, evars, cvars, ovars, gvars>>

\* lines 85-88, with the hasattr() of line 126: an AttributeError from
\* page.images leaves the page without images, any other exception reaches
\* line 90
ProcessPageImages ==
    /\ pc = "images"
    /\ IF ocr_enabled
       THEN IF AttrRaises(CurrentPage.images)
            THEN RaiseFromExtract(PdfError("images"), elements)
            ELSE /\ elements' = elements \o
                       ProcessImages(ExtractImages(ImagesOf(CurrentPage.images)), page_num)
                 /\ AfterPage
                 /\ UNCHANGED <<error, agg_calls, agg_input, result, saved>>
       ELSE /\ AfterPage
            /\ UNCHANGED <<elements, error, agg_calls, agg_input, result, saved>>
    /\ UNCHANGED <<cfg, evars, cvars, ovars, gvars>>

\* line 198; agg_calls and agg_input record the call
Group ==
    /\ pc = "group"
    /\ agg_calls' = agg_calls + 1
    /\ agg_input' = elements
    /\ LET r == GroupElements(elements, ocr_enabled)
       IN  IF r.raises
           THEN /\ pc' = "raised"
                /\ error' = r.error
                /\ UNCHANGED result
           ELSE /\ pc' = IF output_path THEN "save" ELSE "returned"
                /\ result' = r.value
                /\ UNCHANGED error
    /\ UNCHANGED <<page_num, elements, saved, cfg, evars, cvars, ovars, gvars>>

\* lines 201-208, then line 210
Save ==
    /\ pc = "save"
    /\ saved' = result
    /\ pc' = "returned"
    /\ UNCHANGED <<page_num, elements, error, agg_calls, agg_input, result,
                   cfg, evars, cvars, ovars, gvars>>

(***************************************************************************)
(* convert_pdf, the endpoint of main.py.  epc is its position:             *)
(* "validate", "reading", "convert", "converting", "closed".               *)
(***************************************************************************)
BadRequest(detail) == [status |-> 400, detail |-> detail]
ServerError == [status |-> 500,
                detail |-> "An error occurred while processing the PDF. Please try again."]
Ok == [status |-> 200, detail |-> ""]

\* lines 49-53
CheckContentType ==
    /\ epc = "validate"
    /\ IF content_type # PdfContentType
       THEN /\ pending' = BadRequest("Invalid file type. Please upload a PDF file.")
            /\ epc' = "closing"
       ELSE /\ epc' = "reading"
            /\ UNCHANGED pending
    /\ UNCHANGED <<file_size, written, response, cfg, pvars, cvars, ovars, gvars>>

\* a plausible slip: the cap is tested against the chunk, not the total
ExceedsLimitPerChunk(size, chunk) == chunk > MAX_FILE_SIZE

\* line 67
ExceedsLimit(size, chunk) == size > MAX_FILE_SIZE

Min(a, b) == IF a < b THEN a ELSE b

\* lines 65-72: one turn of the read loop; an empty chunk ends it
ReadChunk ==
    /\ epc = "reading"
    /\ LET chunk == Min(ChunkSize, upload - written)
       IN  IF chunk = 0
           THEN /\ epc' = "convert"
                /\ UNCHANGED <<file_size, written, pending>>
           ELSE /\ file_size' = file_size + chunk
                /\ IF ExceedsLimit(file_size + chunk, chunk)
                   THEN /\ pending' =
                              BadRequest("File size exceeds maximum limit of 10MB")
                        /\ epc' = "closing"
                        /\ UNCHANGED written
                   ELSE /\ written' = written + chunk
                        /\ UNCHANGED <<epc, pending>>
    /\ UNCHANGED <<response, cfg, pvars, cvars, ovars, gvars>>

\* lines 76-79: the converter is entered
CallConvert ==
    /\ epc = "convert"
    /\ pc = "idle"
    /\ epc' = "converting"
    /\ pc' = "open"
    /\ UNCHANGED <<file_size, written, pending, response, cfg, page_num, elements, error,
                   agg_calls, agg_input, result, saved, cvars, ovars, gvars>>

\* lines 81-82: the dict is returned from the try block
RespondOk ==
    /\ epc = "converting"
    /\ pc = "returned"
    /\ pending' = Ok
    /\ epc' = "closing"
    /\ UNCHANGED <<file_size, written, response, cfg, pvars, cvars, ovars, gvars>>

\* lines 87-95: the exception is replaced by the generic 500
RespondServerError ==
    /\ epc = "converting"
    /\ pc = "raised"
    /\ pending' = ServerError
    /\ epc' = "closing"
    /\ UNCHANGED <<file_size, written, response, cfg, pvars, cvars, ovars, gvars>>

\* lines 96-98: the finally block awaits file.close(); what left the try
\* block reaches the client only after it
CloseFile ==
    /\ epc = "closing"
    /\ response' = pending
    /\ epc' = "closed"
    /\ UNCHANGED <<file_size, written, pending, cfg, pvars, cvars, ovars, gvars>>

PIdle ==
    /\ caller = "none"
    /\ document = CorruptDocument
    /\ ocr_enabled = TRUE
    /\ output_path = FALSE
    /\ content_type = ""
    /\ upload = 0
    /\ file_size = 0
    /\ written = 0
    /\ epc = "idle"
    /\ pending = NoResponse
    /\ response = NoResponse
    /\ pc = "idle"
    /\ page_num = 0
    /\ elements = <<>>
    /\ error = NoError
    /\ agg_calls = 0
    /\ agg_input = <<>>
    /\ result = NoResult
    /\ saved = NoResult


CIdle ==
    /\ raw = <<>>
    /\ text = <<>>
    /\ elem_type = Unset
    /\ cpc = "idle"

OIdle ==
    /\ page_images = <<>>
    /\ ocr_out = <<>>
    /\ opc = "idle"

NotGrouped == [raises |-> FALSE, error |-> NoError, value |-> <<>>]

GIdle ==
    /\ group_in = [ocr_enabled |-> TRUE, elements |-> <<>>]
    /\ group_out = NotGrouped
    /\ gpc = "idle"

CInit ==
    /\ raw \in RawTexts
    /\ text = <<>>
    /\ elem_type = Unset
    /\ cpc = "token"
    /\ OIdle
    /\ GIdle
    /\ PIdle

ClassifyWord ==
    /\ cpc = "token"
    /\ text' = Strip(raw)
    /\ elem_type' = IF Len(Strip(raw)) = 0 THEN Skipped
                    ELSE DetermineElementType(Strip(raw))
    /\ cpc' = "classified"
    /\ UNCHANGED <<raw, ovars, gvars, cfg, evars, pvars>>

CNext == ClassifyWord

SpecClassify == CInit /\ [][CNext]_vars


(***************************************************************************)
(* Lines 85-88 with OCR enabled: the page's images are decoded and         *)
(* recognized.                                                             *)
(***************************************************************************)
OInit ==
    /\ page_images \in PageImageLists
    /\ ocr_out = <<>>
    /\ opc = "images"
    /\ CIdle
    /\ GIdle
    /\ PIdle

OcrPage ==
    /\ opc = "images"
    /\ ocr_out' = ProcessImages(ExtractImages(page_images), FirstPageNum)
    /\ opc' = "done"
    /\ UNCHANGED <<page_images, cvars, gvars, cfg, evars, pvars>>

ONext == OcrPage

SpecOcr == OInit /\ [][ONext]_vars

(***************************************************************************)
(* _group_elements on its own: any sequence of up to MaxElements elements, *)
(* of several types and pages, in any order, repeats included.             *)
(***************************************************************************)
GroupFragments ==
    { PDFElement("header", TInvoice, 1, <<10, 20, 30, 40>>, One),
      PDFElement("form_field", Strip(TPaid), 1, None, One),
      PDFElement("ocr_text", Strip(TPaid), 2, None, Rat(96, 100)),
      PDFElement("form_field", TDate, 2, None, One),
      PDFElement("header", TInvoice, 3, <<10, 20, 30, 40>>, One),
      PDFElement("ocr_text", TEmail, 3, None, Rat(51, 100)) }

GroupInputs ==
    UNION { [ocr_enabled : BOOLEAN, elements : [1..n -> GroupFragments]] :
            n \in 0..MaxElements }

GInit ==
    /\ group_in \in GroupInputs
    /\ group_out = NotGrouped
    /\ gpc = "call"
    /\ CIdle
    /\ OIdle
    /\ PIdle

GroupCall ==
    /\ gpc = "call"
    /\ group_out' = GroupElements(group_in.elements, group_in.ocr_enabled)
    /\ gpc' = IF Len(group_in.elements) = 0 THEN "raised" ELSE "returned"
    /\ UNCHANGED <<group_in, cvars, ovars, cfg, evars, pvars>>

GNext == GroupCall

SpecGroup == GInit /\ [][GNext]_vars

\* convert_to_json called directly, as main() does, or through the endpoint,
\* whose converter is PDFToJSON(ocr_enabled=True) and which passes no
\* output_path; an upload of no bytes is no PDF
Init ==
    /\ document \in Documents
    /\ \/ /\ caller = "direct"
          /\ ocr_enabled \in BOOLEAN
          /\ output_path \in BOOLEAN
          /\ content_type = ""
          /\ upload = 0
          /\ epc = "direct"
          /\ pc = "open"
       \/ /\ caller = "api"
          /\ ocr_enabled = TRUE
          /\ output_path = FALSE
          /\ content_type \in ContentTypes
          /\ upload \in Uploads
          /\ upload = 0 => document = CorruptDocument
          /\ epc = "validate"
          /\ pc = "idle"
    /\ file_size = 0
    /\ written = 0
    /\ pending = NoResponse
    /\ response = NoResponse
    /\ page_num = 0
    /\ elements = <<>>
    /\ error = NoError
    /\ agg_calls = 0
    /\ agg_input = <<>>
    /\ result = NoResult
    /\ saved = NoResult
    /\ CIdle
    /\ OIdle
    /\ GIdle

Next ==
    \/ OpenPdf
    \/ ExtractWords
    \/ ProcessTables
    \/ ProcessPageImages
    \/ Group
    \/ Save
    \/ CheckContentType
    \/ ReadChunk
    \/ CallConvert
    \/ RespondOk
    \/ RespondServerError
    \/ CloseFile

Spec == Init /\ [][Next]_vars

(***************************************************************************)
(* What the claims speak of.                                               *)
(***************************************************************************)
AllTypes == {"header", "date", "email", "phone", "amount", "list_item",
             "form_field", "text", "ocr_text"}

\* the adapter an element came from: only the native-text adapter sets a
\* bbox, and only the OCR adapter gives the type ocr_text
Origin(e) == IF e.bbox # None THEN 1 ELSE IF e.type = "ocr_text" THEN 3 ELSE 2

InPipelineOrder(s) ==
    \A i, j \in 1..Len(s) :
        i < j => \/ s[i].page < s[j].page
                 \/ s[i].page = s[j].page /\ Origin(s[i]) <= Origin(s[j])

Converted == agg_calls = 1 /\ pc \in {"save", "returned"}

\* C1: the sequence handed to _group_elements is in ascending page order and,
\* within a page, native-text elements come before table elements and those
\* before OCR elements; OCR elements occur only with ocr_enabled; and
\* _group_elements is called at most once, never before the last page is
\* done, and exactly once by the time the conversion saves or returns.
C1_OrderedSingleAggregation ==
    /\ agg_calls <= 1
    /\ pc \in {"idle", "open", "words", "tables", "images", "group"} => agg_calls = 0
    /\ pc \in {"save", "returned"} => agg_calls = 1
    /\ pc = "raised" => (agg_calls = 1 <=> error = MaxOfEmpty)
    /\ agg_calls = 1 =>
          /\ page_num = Len(document.pages)
          /\ agg_input = elements
          /\ InPipelineOrder(agg_input)
          /\ ~ocr_enabled => \A i \in 1..Len(agg_input) : agg_input[i].type # "ocr_text"

C1_Witness ==
    /\ Converted
    /\ ocr_enabled
    /\ \E i, j, k \in 1..Len(agg_input) :
          /\ i < j /\ j < k
          /\ agg_input[i].page = 2 /\ agg_input[j].page = 2 /\ agg_input[k].page = 2
          /\ Origin(agg_input[i]) = 1 /\ Origin(agg_input[j]) = 2
          /\ Origin(agg_input[k]) = 3
    /\ \E i \in 1..Len(agg_input) : agg_input[i].page = 1

OfType(s, t) == LET Is(e) == e.type = t IN SelectSeq(s, Is)
OnPage(s, n) == LET Is(e) == e.page = n IN SelectSeq(s, Is)
PagesOf(s) == {s[i].page : i \in 1..Len(s)}

RECURSIVE ListTotal(_, _)
ListTotal(d, keys) ==
    IF Len(d) = 0 THEN 0
    ELSE (IF Head(d).key \in keys THEN Len(Head(d).value) ELSE 0)
         + ListTotal(Tail(d), keys)

\* C2: in the dict _group_elements returns for a non-empty input, type_X
\* holds exactly the input's elements of type X in input order and page_n
\* exactly those of page n in input order (a key is present only when there
\* are such elements); there are no other keys than these and metadata, no
\* key twice, and the page lists, like the type lists, hold as many
\* elements in all as the input.
C2_OrderPreserving ==
    gpc = "returned" =>
       LET input == group_in.elements
           grouped == group_out.value
           typeKeys == {TypeKey(t) : t \in AllTypes}
           pageKeys == {PageKey(n) : n \in PagesOf(input)}
       IN  /\ ~group_out.raises
           /\ \A t \in AllTypes :
                 IF Len(OfType(input, t)) = 0 THEN ~HasKey(grouped, TypeKey(t))
                 ELSE HasKey(grouped, TypeKey(t))
                      /\ Get(grouped, TypeKey(t)) = OfType(input, t)
           /\ \A n \in PagesOf(input) :
                 /\ HasKey(grouped, PageKey(n))
                 /\ Get(grouped, PageKey(n)) = OnPage(input, n)
           /\ \A i \in 1..Len(grouped) :
                 grouped[i].key \in typeKeys \cup pageKeys \cup {"metadata"}
           /\ \A i, j \in 1..Len(grouped) : grouped[i].key = grouped[j].key => i = j
           /\ ListTotal(grouped, typeKeys) = Len(input)
           /\ ListTotal(grouped, pageKeys) = Len(input)

C2_Witness ==
    /\ gpc = "returned"
    /\ Len(group_in.elements) = 4
    /\ group_in.elements[1].page = 2 /\ group_in.elements[1].type = "form_field"
    /\ group_in.elements[2].page = 1 /\ group_in.elements[2].type = "header"
    /\ group_in.elements[3].page = 2 /\ group_in.elements[3].type = "ocr_text"
    /\ group_in.elements[4].page = 1 /\ group_in.elements[4].type = "form_field"
    /\ Get(group_out.value, "type_form_field")
          = <<group_in.elements[1], group_in.elements[4]>>
    /\ Get(group_out.value, "page_2")
          = <<group_in.elements[1], group_in.elements[3]>>

\* C3: total_pages is the greatest page among the aggregated elements, and
\* aggregating no elements raises an error the code checks for, not the
\* error max() raises on an empty sequence.
C3_EmptyIsCheckedError ==
    agg_calls = 1 =>
       IF Len(agg_input) = 0
       THEN pc = "raised" /\ error.raised_by # "max"
       ELSE /\ pc # "raised"
            /\ \A i \in 1..Len(agg_input) :
                  agg_input[i].page <= Get(result, "metadata").total_pages
            /\ \E i \in 1..Len(agg_input) :
                  agg_input[i].page = Get(result, "metadata").total_pages

\* an image whose decoding or recognition raises: Image.open, image_to_data,
\* or the reading of a span's confidence
SpanRaises(r, i) ==
    Len(Strip(r.text[i])) > 0 /\ (i > Len(r.conf) \/ ~IsNumber(r.conf[i]))

ImageFails(img) ==
    \/ ~img.decodable
    \/ img.ocr.raises
    \/ \E i \in 1..Len(img.ocr.text) : SpanRaises(img.ocr, i)

RECURSIVE SurvivorsElements(_, _)
SurvivorsElements(imgs, n) ==
    IF Len(imgs) = 0 THEN <<>>
    ELSE (IF ImageFails(Head(imgs)) THEN <<>> ELSE ImageElements(Head(imgs), n))
         \o SurvivorsElements(Tail(imgs), n)

\* C4: an image that fails to decode or to be recognized contributes no
\* element at all, none either from the spans handled before the failure,
\* and the page's other images contribute theirs, in image order.
C4_FailedImageContributesNothing ==
    opc = "done" => ocr_out = SurvivorsElements(page_images, FirstPageNum)

DocumentUnreadable ==
    \/ document.corrupt
    \/ \E n \in 1..Len(document.pages) :
          LET p == document.pages[n]
          IN  \/ p.words.raises
              \/ p.tables.raises
              \/ \E k \in 1..Len(p.tables.items) : p.tables.items[k].raises
              \/ ocr_enabled /\ AttrRaises(p.images)

\* C5: when opening the document, extract_words, find_tables or extract
\* raises on some page, or page.images raises anything but the
\* AttributeError that hasattr() takes for a page without images, the
\* conversion never calls _group_elements, returns no dict and writes no
\* file: it ends raised, with that error.
C5_FatalReadAborts ==
    (caller # "none" /\ DocumentUnreadable) =>
       /\ agg_calls = 0
       /\ result = NoResult
       /\ saved = NoResult
       /\ pc \in {"idle", "open", "words", "tables", "images", "raised"}
       /\ pc = "raised" => error.type = "PdfError"
       /\ epc = "closed" => response.status # 200

C5_Witness ==
    /\ pc = "raised"
    /\ error = PdfError("extract")
    /\ page_num = 2
    /\ \E i \in 1..Len(elements) : elements[i].page = 1
    /\ \E i \in 1..Len(elements) : elements[i].page = 2
    /\ agg_calls = 0

RECURSIVE AllSpans(_)
AllSpans(imgs) ==
    IF Len(imgs) = 0 THEN <<>>
    ELSE [i \in 1..Len(Head(imgs).ocr.text) |->
            [text |-> Head(imgs).ocr.text[i], conf |-> Head(imgs).ocr.conf[i]]]
         \o AllSpans(Tail(imgs))

\* the reported confidence is above 50 and the text is not blank
SpanQualifies(sp) == Len(Strip(sp.text)) > 0 /\ sp.conf.num > 50 * sp.conf.den

AllRecognized(imgs) ==
    \A k \in 1..Len(imgs) :
        /\ imgs[k].decodable
        /\ ~imgs[k].ocr.raises
        /\ Len(imgs[k].ocr.conf) = Len(imgs[k].ocr.text)
        /\ \A i \in 1..Len(imgs[k].ocr.conf) : IsNumber(imgs[k].ocr.conf[i])

\* C6: over images that are all recognized, with a number for every span's
\* confidence, the OCR adapter emits one element per span whose trimmed
\* text is not empty and whose confidence c is above 50, in span order, and
\* none for any other span (none at c = 50); each element is an ocr_text
\* with the trimmed text and confidence c/100, above 0.5 and at most 1.
C6_ConfidenceThreshold ==
    (opc = "done" /\ AllRecognized(page_images)) =>
       LET kept == SelectSeq(AllSpans(page_images), SpanQualifies)
       IN  /\ Len(ocr_out) = Len(kept)
           /\ \A k \in 1..Len(ocr_out) :
                 /\ ocr_out[k].type = "ocr_text"
                 /\ ocr_out[k].text = Strip(kept[k].text)
                 /\ ocr_out[k].page = FirstPageNum
                 /\ ocr_out[k].bbox = None
                 /\ ocr_out[k].confidence.den > 0
                 /\ ocr_out[k].confidence.num * kept[k].conf.den * 100
                       = kept[k].conf.num * ocr_out[k].confidence.den
                 /\ RatGT(ocr_out[k].confidence, Half)
                 /\ RatGE(One, ocr_out[k].confidence)

C6_Witness ==
    /\ opc = "done"
    /\ AllRecognized(page_images)
    /\ \E k \in 1..Len(page_images) :
          /\ Len(page_images[k].ocr.text) = 2
          /\ page_images[k].ocr.text = << <<"h", "i">>, <<"u0085", "o", "k", "\n">> >>
          /\ page_images[k].ocr.conf = <<Rat(50, 1), Rat(5001, 100)>>
    /\ Len(page_images) = 1
    /\ Len(ocr_out) = 1
    /\ ocr_out[1].text = <<"o", "k">>
    /\ ocr_out[1].confidence = Rat(5001, 10000)

Classified == cpc = "classified" /\ Len(text) > 0

\* C7: the type given to a non-empty stripped text is that of the first of
\* header, date, email, phone, amount, list_item whose pattern matches at the
\* start of the text; when none matches it is form_field if the text holds a
\* colon and text otherwise.
C7_FirstMatchWins ==
    Classified =>
       LET rules == <<HeaderPattern, DatePattern, EmailPattern, PhonePattern,
                      AmountPattern, ListItemPattern>>
           kinds == <<"header", "date", "email", "phone", "amount", "list_item">>
           hits == {k \in 1..6 : ReMatch(rules[k], text)}
       IN  IF hits # {}
           THEN \E k \in hits : (\A j \in hits : k <= j) /\ elem_type = kinds[k]
           ELSE elem_type = IF \E i \in 1..Len(text) : text[i] = ":"
                            THEN "form_field" ELSE "text"

C7_Witness ==
    /\ Classified
    /\ ReMatch(DatePattern, text)
    /\ ReMatch(PhonePattern, text)
    /\ elem_type = "date"

\* uppercase letters and whitespace, at least four, then one colon
AllCapsLabelWithColon(s) ==
    /\ Len(s) >= 5
    /\ s[Len(s)] = ":"
    /\ \A i \in 1..(Len(s) - 1) : s[i] \in Upper \cup Whitespace

\* C8 as stated: a text that matches the header pattern, and an all-caps
\* label with a trailing colon such as "NAME:", are classified header.
C8_LabelWithColonIsHeader ==
    (Classified /\ (ReMatch(HeaderPattern, text) \/ AllCapsLabelWithColon(text)))
       => elem_type = "header"

\* C8, amended: a text that matches the header pattern is classified header
\* and holds no colon; an all-caps label with a trailing colon such as
\* "NAME:" does not match the header pattern and is classified form_field.
C8_HeaderHasNoColon ==
    Classified =>
       /\ ReMatch(HeaderPattern, text) =>
             elem_type = "header" /\ \A i \in 1..Len(text) : text[i] # ":"
       /\ AllCapsLabelWithColon(text) =>
             ~ReMatch(HeaderPattern, text) /\ elem_type = "form_field"

C8_Witness ==
    /\ Classified
    /\ text = <<"N", "A", "M", "E", ":">>
    /\ elem_type = "form_field"

IsPageKey(k) == \E n \in 1..Len(document.pages) : k = PageKey(n)
PageOfKey(k) == CHOOSE n \in 1..Len(document.pages) : k = PageKey(n)
KeyRank(k) == IF IsPageKey(k) THEN 1 ELSE IF k = "metadata" THEN 3 ELSE 2

\* C9: the keys of the returned dict come as all page_n keys in ascending n,
\* then all type_ keys, then metadata.
C9_PageKeysFirst ==
    Converted =>
       \A i, j \in 1..Len(result) :
           i < j => /\ KeyRank(result[i].key) <= KeyRank(result[j].key)
                    /\ (IsPageKey(result[i].key) /\ IsPageKey(result[j].key))
                          => PageOfKey(result[i].key) < PageOfKey(result[j].key)

\* C10: a request of another content type than application/pdf, or of more
\* than MAX_FILE_SIZE bytes, never starts the converter and is answered
\* 400; the converter starts only with the whole upload counted and written
\* within the cap; a conversion that raises is answered 500 with the
\* generic detail, one that returns 200.
C10_RejectBeforeConvert ==
    caller = "api" =>
       /\ (content_type # PdfContentType \/ upload > MAX_FILE_SIZE) =>
             /\ pc = "idle"
             /\ epc \in {"validate", "reading", "closing", "closed"}
             /\ epc = "closing" => pending.status = 400
             /\ epc = "closed" => response.status = 400
       /\ pc # "idle" =>
             /\ content_type = PdfContentType
             /\ file_size = upload
             /\ written = upload
             /\ upload <= MAX_FILE_SIZE
       /\ (epc = "closed" /\ pc = "raised") => response = ServerError
       /\ (epc = "closed" /\ pc = "returned") => response.status = 200
       /\ epc # "closed" => response = NoResponse
       /\ response.status \in {0, 200, 400, 500}

C10_Witness ==
    /\ caller = "api"
    /\ content_type = PdfContentType
    /\ upload = MAX_FILE_SIZE + 1
    /\ written = MAX_FILE_SIZE
    /\ epc = "closed"
    /\ response.status = 400
    /\ pc = "idle"

=============================================================================
